---- MODULE Spec2Model ----
(***************************************************************************)
(* A model of crystallattice_toolkit: the Lattice class (construction,     *)
(* periodic neighbour search, supercell replication) and the               *)
(* ReciprocalLattice class (reciprocal basis, reciprocal points).          *)
(*                                                                         *)
(* Numbers.  A float is modelled by the exact rational it holds, written   *)
(* <<n, d>> with d > 0 and gcd(n, d) = 1; the three IEEE specials a        *)
(* division by zero produces are written with the denominator 0:           *)
(* <<0, 0>> is nan, <<1, 0>> is +inf and <<-1, 0>> is -inf.                *)
(* Lattice vectors are floats with integral values and are written as      *)
(* integers.  A distance is carried by its square (the norm of a rational  *)
(* vector is in general irrational): d is within cutoff iff d^2 is within  *)
(* cutoff^2.                                                               *)
(*                                                                         *)
(* Arrays.  A numpy array is [shape |-> <<d1, ..>>, flat |-> the entries   *)
(* in C (row-major) order], so that reshape, broadcasting and indexing are *)
(* index arithmetic on the flat buffer, as in numpy.                       *)
(***************************************************************************)
EXTENDS Integers, Sequences, FiniteSets, TLC

(* ------------------------------ bounds --------------------------------- *)
\* Largest edge length of an input cell (entries of lattice_vectors).
MaxEdge == 2
\* Largest off-diagonal entry of an input cell.
MaxSkew == 1
\* Largest number of atoms of an input cell with chosen positions.
MaxAtoms == 2
\* Cutoffs are the multiples c/CutDen, c in 1..MaxCut.
CutDen == 8
MaxCut == 9
\* Largest supercell multiplier along an axis.
MaxMult == 2
\* Largest shell of reciprocal points.
MaxShell == 1
\* Argument arrays have at most MaxRank axes of extent 0..MaxExtent.
MaxRank == 3
MaxExtent == 3

(* ---------------------------- exact numbers ---------------------------- *)
Abs(x) == IF x < 0 THEN -x ELSE x

RECURSIVE GCD(_, _)
GCD(a, b) == IF b = 0 THEN a ELSE GCD(b, a % b)

\* The rational n/d (d # 0) in lowest terms with a positive denominator.
Rat(n, d) ==
    LET g == GCD(Abs(n), Abs(d))
        s == IF d < 0 THEN -1 ELSE 1
    IN  <<s * (n \div g), s * (d \div g)>>

RInt(i) == <<i, 1>>
RAdd(x, y) == Rat(x[1] * y[2] + y[1] * x[2], x[2] * y[2])
RDivInt(x, i) == Rat(x[1], x[2] * i)

\* Float division n / d of two integral floats: numpy yields nan for 0/0
\* and a signed infinity for n/0 (d is +0.0 whenever it is zero here: the
\* entries of an input cell are not negative), and raises nothing.
FDiv(n, d) ==
    IF d = 0 THEN (IF n = 0 THEN <<0, 0>> ELSE IF n > 0 THEN <<1, 0>> ELSE <<-1, 0>>)
    ELSE Rat(n, d)

IsNaN(x) == x = <<0, 0>>
IsInf(x) == x[2] = 0 /\ x[1] # 0
IsFinite(x) == x[2] # 0

\* IEEE product of the integer i and the float x.
FMulInt(i, x) ==
    IF IsFinite(x) THEN Rat(i * x[1], x[2])
    ELSE IF IsNaN(x) \/ i = 0 THEN <<0, 0>>
    ELSE IF i > 0 THEN x ELSE <<-x[1], 0>>

\* IEEE sum of two floats.
FAdd(x, y) ==
    IF IsNaN(x) \/ IsNaN(y) THEN <<0, 0>>
    ELSE IF IsInf(x) THEN (IF IsInf(y) /\ y # x THEN <<0, 0>> ELSE x)
    ELSE IF IsInf(y) THEN y
    ELSE Rat(x[1] * y[2] + y[1] * x[2], x[2] * y[2])

(* ------------------------------ arrays --------------------------------- *)
RECURSIVE Prod(_)
\* The number of entries of an array of shape s.
Prod(s) == IF s = <<>> THEN 1 ELSE Head(s) * Prod(Tail(s))

ndim(A) == Len(A.shape)

\* Row m (0-based) of an array of shape (rows, 3).
Row(A, m) == <<A.flat[3 * m + 1], A.flat[3 * m + 2], A.flat[3 * m + 3]>>

\* The bag with the given <<element, number of occurrences>> entries.
Bag(entries) ==
    [e \in {x[1] : x \in entries} |-> (CHOOSE x \in entries : x[1] = e)[2]]

\* An absent object is the empty tuple; the object x is held as <<x>>.
None == <<>>
Some(x) == <<x>>

(* ------------------------------ Lattice -------------------------------- *)
\* A slip in the check of line 35: the list is compared with the number
\* of columns.
species_mismatch_columns(species, positions_frac) ==
    Len(species) # positions_frac.shape[2]

\* The condition of line 35: len(self.species) != self.positions_frac.shape[0].
species_mismatch(species, positions_frac) ==
    Len(species) # positions_frac.shape[1]

\* Lattice.__init__: the object, or the ValueError it raises.
Lattice_init(lattice_vectors, species, positions_frac) ==
    IF ndim(positions_frac) # 2
    THEN [raised |-> "ValueError", value |-> None]
    ELSE IF positions_frac.shape[2] # 3
    THEN [raised |-> "ValueError", value |-> None]
    ELSE IF species_mismatch(species, positions_frac)
    THEN [raised |-> "ValueError", value |-> None]
    ELSE [raised |-> "none",
          value |-> Some([lattice_vectors |-> lattice_vectors,
                          species |-> species,
                          positions_frac |-> positions_frac])]

RECURSIVE ConcatMap(_, _)
\* The concatenation of f(x) for x in the sequence s, in order.
ConcatMap(f(_), s) ==
    IF s = <<>> THEN <<>> ELSE f(Head(s)) \o ConcatMap(f, Tail(s))

\* [[i, j, k] for i in I for j in J for k in K]: i outermost, k innermost.
Comprehension(I, J, K) ==
    ConcatMap(LAMBDA i : ConcatMap(LAMBDA j :
        ConcatMap(LAMBDA k : << <<i, j, k>> >>, K), J), I)

RECURSIVE range(_, _)
\* Python's range(a, b).
range(a, b) == IF a >= b THEN <<>> ELSE <<a>> \o range(a + 1, b)

\* get_neighbors' shifts: the 27 triples of (-1, 0, 1).
shifts27 == Comprehension(<<-1, 0, 1>>, <<-1, 0, 1>>, <<-1, 0, 1>>)

RECURSIVE LCMDen(_)
\* The least common denominator of a sequence of rationals.
LCMDen(q) ==
    IF q = <<>> THEN 1
    ELSE LET l == LCMDen(Tail(q))
             d == Head(q)[2]
         IN  (l * d) \div GCD(l, d)

\* frac_images: row idx = r * N + m of the reshaped (27, N, 3) broadcast
\* sum positions_frac[None, :, :] + shifts[:, None, :].  Every entry is
\* written over the common denominator D of positions_frac: the value is
\* the returned integer divided by D.
frac_images(self, D, idx) ==
    LET N == self.positions_frac.shape[1]
        p == Row(self.positions_frac, idx % N)
        s == shifts27[(idx \div N) + 1]
    IN  <<p[1][1] * (D \div p[1][2]) + s[1] * D,
          p[2][1] * (D \div p[2][2]) + s[2] * D,
          p[3][1] * (D \div p[3][2]) + s[3] * D>>

\* cart_images: row idx of frac_images . lattice_vectors, over D again.
cart_images(self, D, idx) ==
    LET f == frac_images(self, D, idx)
        B == self.lattice_vectors
    IN  <<f[1] * B[1][1] + f[2] * B[2][1] + f[3] * B[3][1],
          f[1] * B[1][2] + f[2] * B[2][2] + f[3] * B[3][2],
          f[1] * B[1][3] + f[2] * B[2][3] + f[3] * B[3][3]>>

RECURSIVE Rows(_, _, _, _)
\* Rows from..n-1 of an array given by its row operator, as a tuple.
Rows(row(_), from, n, acc) ==
    IF from = n THEN acc ELSE Rows(row, from + 1, n, Append(acc, row(from)))

\* The square of numpy.linalg.norm(u - v), in units of 1/D^2.
norm2(u, v) ==
    (u[1] - v[1]) * (u[1] - v[1]) + (u[2] - v[2]) * (u[2] - v[2])
        + (u[3] - v[3]) * (u[3] - v[3])

\* A slip in the comparison: the squared distance against the cutoff itself.
Within_unsquared(d2, D, cutoff) ==
    d2 * cutoff[2] <= cutoff[1] * D * D

\* A slip in the filter of line 80: i <= j.
keep_le(i, j) == i <= j

\* The filter of line 80: if i < j.
keep(i, j) == i < j

\* d <= cutoff for a distance of square d2/D^2 and the cutoff c[1]/c[2].
Within(d2, D, cutoff) ==
    d2 * cutoff[2] * cutoff[2] <= cutoff[1] * cutoff[1] * D * D

\* cKDTree.query_pairs(r = cutoff): the set of index pairs (a, b), a < b,
\* of points at distance at most r (points is 1-based, indices 0-based).
query_pairs(points, D, cutoff) ==
    LET n == Len(points)
    IN  UNION {{<<a, b>> : b \in {b \in (a + 1)..(n - 1) :
                    Within(norm2(points[a + 1], points[b + 1]), D, cutoff)}} :
               a \in 0..(n - 1)}

\* Lattice.get_neighbors: the returned list, whose order is the iteration
\* order of a Python set and is not determined; it is kept as the bag of
\* its triples (i, j, d^2), a function from triple to number of occurrences.
get_neighbors(self, cutoff) ==
    LET N == self.positions_frac.shape[1]
        D == LCMDen(self.positions_frac.flat)
        row(idx) == cart_images(self, D, idx)
        cart == Rows(row, 0, 27 * N, <<>>)
        pairs == query_pairs(cart, D, cutoff)
        \* the loop of lines 76-82: (i, j, d) for the pairs with i < j
        hits == {pq \in pairs : keep(pq[1] % N, pq[2] % N)}
        d2(pq) == norm2(cart[pq[1] + 1], cart[pq[2] + 1])
        keys == {<<pq[1] % N, pq[2] % N, d2(pq)>> : pq \in hits}
        count(k) == Cardinality({pq \in hits :
                        pq[1] % N = k[1] /\ pq[2] % N = k[2] /\ d2(pq) = k[3]})
    IN  Bag({<<<<k[1], k[2], Rat(k[3], D * D)>>, count(k)>> : k \in keys})

\* A slip in line 105: every label repeated S times in place (numpy.repeat).
repeat_each(species, S) ==
    [t \in 1..(Len(species) * S) |-> species[((t - 1) \div S) + 1]]

\* species * S of line 105: the list concatenated S times.
repeat_list(species, S) ==
    [t \in 1..(Len(species) * S) |-> species[((t - 1) % Len(species)) + 1]]

\* A slip in lines 107-109: the vector left as it is.
unscaled(vector, n) == [c \in 1..3 |-> vector[c]]

\* lattice_vectors[i] * n of lines 107-109.
scaled(vector, n) == [c \in 1..3 |-> vector[c] * n]

\* Lattice.make_supercell: the Lattice that line 111 constructs.
make_supercell(self, multipliers) ==
    LET na == multipliers[1]
        nb == multipliers[2]
        nc == multipliers[3]
        shifts == Comprehension(range(0, na), range(0, nb), range(0, nc))
        N == self.positions_frac.shape[1]
        S == Len(shifts)
        \* positions_frac[None, :, :] + shifts[:, None, :], of shape (S, N, 3)
        sum == [shape |-> <<S, N, 3>>,
                flat |-> [t \in 1..(S * N * 3) |->
                    LET c == (t - 1) % 3
                        m == ((t - 1) \div 3) % N
                        r == (t - 1) \div (3 * N)
                    IN  RAdd(self.positions_frac.flat[3 * m + c + 1],
                             RInt(shifts[r + 1][c + 1]))]]
        \* .reshape(-1, 3)
        reshaped == [shape |-> <<Prod(sum.shape) \div 3, 3>>, flat |-> sum.flat]
        \* / np.array([na, nb, nc]), broadcast along the last axis
        new_frac == [shape |-> reshaped.shape,
                     flat |-> [t \in 1..Prod(reshaped.shape) |->
                         RDivInt(reshaped.flat[t], multipliers[((t - 1) % 3) + 1])]]
        new_species == repeat_list(self.species, S)
        new_vectors == <<scaled(self.lattice_vectors[1], na),
                         scaled(self.lattice_vectors[2], nb),
                         scaled(self.lattice_vectors[3], nc)>>
    IN  Lattice_init(new_vectors, new_species, new_frac)

(* ------------------------- ReciprocalLattice --------------------------- *)
\* numpy.cross and numpy.dot of two integral 3-vectors.
cross(u, v) ==
    <<u[2] * v[3] - u[3] * v[2], u[3] * v[1] - u[1] * v[3], u[1] * v[2] - u[2] * v[1]>>

dot(u, v) == u[1] * v[1] + u[2] * v[2] + u[3] * v[3]

\* 2*pi * n / vol for each component of n, in units of 2*pi.
reciprocal_vector(n, vol) == <<FDiv(n[1], vol), FDiv(n[2], vol), FDiv(n[3], vol)>>

\* A slip in line 19: b2 from a1 x a3 instead of a3 x a1.
ReciprocalLattice_init_swapped(real_lattice) ==
    LET a1 == real_lattice.lattice_vectors[1]
        a2 == real_lattice.lattice_vectors[2]
        a3 == real_lattice.lattice_vectors[3]
        vol == dot(a1, cross(a2, a3))
        b1 == reciprocal_vector(cross(a2, a3), vol)
        b2 == reciprocal_vector(cross(a1, a3), vol)
        b3 == reciprocal_vector(cross(a1, a2), vol)
    IN  [raised |-> "none", value |-> Some([basis |-> <<b1, b2, b3>>])]

\* ReciprocalLattice.__init__: the object; nothing in it raises.
ReciprocalLattice_init(real_lattice) ==
    LET a1 == real_lattice.lattice_vectors[1]
        a2 == real_lattice.lattice_vectors[2]
        a3 == real_lattice.lattice_vectors[3]
        vol == dot(a1, cross(a2, a3))
        b1 == reciprocal_vector(cross(a2, a3), vol)
        b2 == reciprocal_vector(cross(a3, a1), vol)
        b3 == reciprocal_vector(cross(a1, a2), vol)
    IN  [raised |-> "none", value |-> Some([basis |-> <<b1, b2, b3>>])]

\* s.dot(basis) for an integer triple s.
sdot(s, basis) ==
    [c \in 1..3 |-> FAdd(FAdd(FMulInt(s[1], basis[1][c]), FMulInt(s[2], basis[2][c])),
                         FMulInt(s[3], basis[3][c]))]

\* ReciprocalLattice.get_reciprocal_points: the rows of pts.
get_reciprocal_points(self, shell) ==
    LET shifts == Comprehension(range(-shell, shell + 1), range(-shell, shell + 1),
                                range(-shell, shell + 1))
    IN  [t \in 1..Len(shifts) |-> sdot(shifts[t], self.basis)]

(* ------------------------------- inputs -------------------------------- *)
\* Fractional positions of an atom: the origin, the body centre, an edge
\* centre and a face centre of the cell.
Sites ==
    {<<RInt(0), RInt(0), RInt(0)>>, <<Rat(1, 2), Rat(1, 2), Rat(1, 2)>>,
     <<Rat(1, 2), RInt(0), RInt(0)>>, <<RInt(0), Rat(1, 2), Rat(1, 2)>>}

RECURSIVE Flatten(_)
Flatten(rows) == IF rows = <<>> THEN <<>> ELSE Head(rows) \o Flatten(Tail(rows))

\* The (n, 3) arrays of 1..MaxAtoms rows, each row a site.
PositionArrays ==
    UNION {{[shape |-> <<n, 3>>, flat |-> Flatten(rows)] :
              rows \in [1..n -> Sites]} : n \in 1..MaxAtoms}

\* Those whose atoms sit at different sites.
DistinctPositionArrays ==
    {P \in PositionArrays :
        \A m \in 0..(P.shape[1] - 1), k \in 0..(P.shape[1] - 1) :
            m # k => Row(P, m) # Row(P, k)}

\* The zero-filled arrays of every shape of at most MaxRank axes: among
\* them the arrays that are not two-dimensional or not three columns wide.
ZeroArrays ==
    UNION {{[shape |-> sh, flat |-> [t \in 1..Prod(sh) |-> RInt(0)]] :
              sh \in [1..k -> 0..MaxExtent]} : k \in 0..MaxRank}

Symbols == <<"H", "He", "Li", "Be", "B", "C", "N", "O">>
\* A species list of k distinct labels.
SpeciesOf(k) == [m \in 1..k |-> Symbols[m]]

\* Cells with rows (x,0,0), (s,y,0), (0,t,z), no row zero; the rows are
\* coplanar when y = 0 or z = 0.
Cells ==
    {B \in {<< <<x, 0, 0>>, <<s, y, 0>>, <<0, t, z>> >> :
                x \in 1..MaxEdge, y \in 0..MaxEdge, z \in 0..MaxEdge,
                s \in 0..MaxSkew, t \in 0..MaxSkew} :
        B[2] # <<0, 0, 0>> /\ B[3] # <<0, 0, 0>>}

\* Cells with rows (x,0,0), (s,x,0), (0,0,z), of positive volume.
TetragonalCells ==
    {<< <<x, 0, 0>>, <<s, x, 0>>, <<0, 0, z>> >> :
        x \in 1..MaxEdge, z \in 1..MaxEdge, s \in 0..MaxSkew}

\* Cells with rows (x,0,0), (s,x,0), (0,0,x): cubic when s = 0.
ShearedCells ==
    {<< <<x, 0, 0>>, <<s, x, 0>>, <<0, 0, x>> >> : x \in 1..MaxEdge, s \in 0..MaxSkew}

UnitCell == << <<1, 0, 0>>, <<0, 1, 0>>, <<0, 0, 1>> >>

Cutoffs == {Rat(c, CutDen) : c \in 1..MaxCut}
Multipliers == {<<na, nb, nc>> : na \in 1..MaxMult, nb \in 1..MaxMult, nc \in 1..MaxMult}

(* ---------------------------- state machine ---------------------------- *)
\* args: the arguments of the Lattice constructor; lat: the Lattice built
\* from them; recip: the ReciprocalLattice built from lat; raised: the
\* exception that ended the run; call: the last call and its arguments;
\* result: what the query returned.  A run is one use of the library: it
\* constructs a Lattice and asks one query of it.
VARIABLES args, lat, recip, raised, call, result

vars == <<args, lat, recip, raised, call, result>>

Start ==
    /\ lat = None
    /\ recip = None
    /\ raised = "none"
    /\ call = [op |-> "none"]
    /\ result = None

\* Either an array of any shape with a species list of any length, or
\* well-formed arguments with a tetragonal cell.
InitLattice ==
    /\ \/ \E P \in ZeroArrays, k \in 0..MaxExtent :
             args = [lattice_vectors |-> UnitCell, species |-> SpeciesOf(k),
                     positions_frac |-> P]
       \/ \E B \in TetragonalCells, P \in PositionArrays :
             args = [lattice_vectors |-> B, species |-> SpeciesOf(P.shape[1]),
                     positions_frac |-> P]
    /\ Start

\* Well-formed arguments: atoms at different sites of a sheared cell.
InitNeighbors ==
    /\ \E B \in ShearedCells, P \in DistinctPositionArrays :
          args = [lattice_vectors |-> B, species |-> SpeciesOf(P.shape[1]),
                  positions_frac |-> P]
    /\ Start

\* One atom at the origin of any cell, the coplanar ones among them.
InitReciprocal ==
    /\ \E B \in Cells :
          args = [lattice_vectors |-> B, species |-> SpeciesOf(1),
                  positions_frac |-> [shape |-> <<1, 3>>,
                                      flat |-> <<RInt(0), RInt(0), RInt(0)>>]]
    /\ Start

Init == InitLattice \/ InitNeighbors \/ InitReciprocal

\* Lattice(lattice_vectors, species, positions_frac)
Construct ==
    /\ call.op = "none"
    /\ LET r == Lattice_init(args.lattice_vectors, args.species, args.positions_frac)
       IN  /\ lat' = r.value
           /\ raised' = r.raised
    /\ call' = [op |-> "Lattice"]
    /\ UNCHANGED <<args, recip, result>>

\* lat.get_neighbors(cutoff)
GetNeighbors ==
    /\ lat # None
    /\ call.op = "Lattice"
    /\ \E cutoff \in Cutoffs :
          /\ call' = [op |-> "get_neighbors", cutoff |-> cutoff]
          /\ result' = Some(get_neighbors(lat[1], cutoff))
    /\ UNCHANGED <<args, lat, recip, raised>>

\* lat.make_supercell(multipliers)
MakeSupercell ==
    /\ lat # None
    /\ call.op = "Lattice"
    /\ \E multipliers \in Multipliers :
          LET r == make_supercell(lat[1], multipliers)
          IN  /\ call' = [op |-> "make_supercell", multipliers |-> multipliers]
              /\ result' = r.value
              /\ raised' = r.raised
    /\ UNCHANGED <<args, lat, recip>>

\* ReciprocalLattice(lat)
Reciprocal ==
    /\ lat # None
    /\ call.op = "Lattice"
    /\ LET r == ReciprocalLattice_init(lat[1])
       IN  /\ recip' = r.value
           /\ raised' = r.raised
    /\ call' = [op |-> "ReciprocalLattice"]
    /\ UNCHANGED <<args, lat, result>>

\* recip.get_reciprocal_points(shell)
GetReciprocalPoints ==
    /\ recip # None
    /\ call.op = "ReciprocalLattice"
    /\ \E shell \in 0..MaxShell :
          /\ call' = [op |-> "get_reciprocal_points", shell |-> shell]
          /\ result' = Some(get_reciprocal_points(recip[1], shell))
    /\ UNCHANGED <<args, lat, recip, raised>>

Next == Construct \/ GetNeighbors \/ MakeSupercell \/ Reciprocal \/ GetReciprocalPoints
Spec == Init /\ [][Next]_vars

NextLattice == Construct \/ MakeSupercell
SpecLattice == InitLattice /\ [][NextLattice]_vars

NextNeighbors == Construct \/ GetNeighbors
SpecNeighbors == InitNeighbors /\ [][NextNeighbors]_vars

NextReciprocal == Construct \/ Reciprocal \/ GetReciprocalPoints
SpecReciprocal == InitReciprocal /\ [][NextReciprocal]_vars

(* ------------------------------ properties ----------------------------- *)
\* The basis volume a1 . (a2 x a3).
volume(vectors) == dot(vectors[1], cross(vectors[2], vectors[3]))

NAtoms(L) == L.positions_frac.shape[1]

\* The image of atom m under shift number r (both 0-based), over Den(L).
Den(L) == LCMDen(L.positions_frac.flat)
Image(L, m, r) == cart_images(L, Den(L), r * NAtoms(L) + m)
ImageDist2(L, i, r, j, s) == norm2(Image(L, i, r), Image(L, j, s))

\* The pairs (image r of atom i, image s of atom j) at distance <= cutoff.
Pooled(L, i, j, cutoff) ==
    {rs \in (0..26) \X (0..26) :
        Within(ImageDist2(L, i, rs[1], j, rs[2]), Den(L), cutoff)}

\* C1: for all atoms i < j the returned triples (i, j, d) are exactly the
\* pooled pairs of an image of i and an image of j within the cutoff, one
\* triple per pair, each with the distance of its two image points.
C1_EveryImagePairReported ==
    call.op = "get_neighbors" =>
        LET L == lat[1]
            bag == result[1]
            d(i, j, rs) == Rat(ImageDist2(L, i, rs[1], j, rs[2]), Den(L) * Den(L))
        IN  \A i \in 0..(NAtoms(L) - 1) : \A j \in (i + 1)..(NAtoms(L) - 1) :
                LET P == Pooled(L, i, j, call.cutoff)
                IN  /\ \A rs \in P : <<i, j, d(i, j, rs)>> \in DOMAIN bag
                    /\ \A t \in DOMAIN bag :
                          (t[1] = i /\ t[2] = j) =>
                              bag[t] = Cardinality({rs \in P : d(i, j, rs) = t[3]})

\* Two different images of atom m are closer than the cutoff.
OwnImageClose(L, m, cutoff) ==
    \E r \in 0..26, s \in 0..26 :
        /\ r # s
        /\ ImageDist2(L, m, r, m, s) * cutoff[2] * cutoff[2]
              < cutoff[1] * cutoff[1] * Den(L) * Den(L)

\* C2 as stated: an atom whose image is closer to it than the cutoff is
\* returned as a pair with itself.
C2_OwnImagePairReported ==
    call.op = "get_neighbors" =>
        \A m \in 0..(NAtoms(lat[1]) - 1) :
            OwnImageClose(lat[1], m, call.cutoff) =>
                \E t \in DOMAIN result[1] : t[1] = m /\ t[2] = m

\* C2 as amended: every returned triple has i < j, so that no atom is ever
\* returned with its own image, and a one-atom cell returns nothing.
C2_OwnImageNeverReported ==
    call.op = "get_neighbors" =>
        /\ \A t \in DOMAIN result[1] : t[1] < t[2]
        /\ NAtoms(lat[1]) = 1 => DOMAIN result[1] = {}

\* A one-atom cell queried with a cutoff beyond the distance to its image.
C2_Witness ==
    /\ call.op = "get_neighbors"
    /\ NAtoms(lat[1]) = 1
    /\ OwnImageClose(lat[1], 0, call.cutoff)
    /\ DOMAIN result[1] = {}

WellShaped(P) == ndim(P) = 2 /\ P.shape[2] = 3

ConsistentLattice(L) ==
    /\ WellShaped(L.positions_frac)
    /\ Len(L.species) = L.positions_frac.shape[1]

\* C3: the constructor raises, and leaves no object, when positions_frac is
\* not N x 3 or the species list has another length than N; every Lattice
\* there is (the constructed one, the supercell) has len(species) = N.
C3_ConstructionChecksShape ==
    /\ call.op = "Lattice" =>
          ((~WellShaped(args.positions_frac)
              \/ Len(args.species) # args.positions_frac.shape[1])
           => (raised = "ValueError" /\ lat = None))
    /\ lat # None => ConsistentLattice(lat[1])
    /\ (call.op = "make_supercell" /\ result # None) => ConsistentLattice(result[1])

\* The constructor refused a well-shaped array with a species list of
\* another length.
C3_Witness ==
    /\ call.op = "Lattice"
    /\ raised = "ValueError"
    /\ lat = None
    /\ WellShaped(args.positions_frac)
    /\ Len(args.species) # args.positions_frac.shape[1]

\* C4: the supercell has na*nb*nc*N atoms (labels and rows) and na*nb*nc
\* times the basis volume.
C4_SupercellCountAndVolume ==
    call.op = "make_supercell" =>
        LET L == lat[1]
            m == call.multipliers
            n == m[1] * m[2] * m[3]
        IN  /\ raised = "none"
            /\ result # None
            /\ Len(result[1].species) = n * NAtoms(L)
            /\ result[1].positions_frac.shape = <<n * NAtoms(L), 3>>
            /\ Len(result[1].positions_frac.flat) = 3 * n * NAtoms(L)
            /\ volume(result[1].lattice_vectors) = n * volume(L.lattice_vectors)

\* A supercell of several replicas, with unequal multipliers, of a
\* two-atom sheared cell.
C4_Witness ==
    /\ call.op = "make_supercell"
    /\ result # None
    /\ call.multipliers[1] # call.multipliers[3]
    /\ NAtoms(lat[1]) = 2
    /\ lat[1].lattice_vectors[2][1] # 0
    /\ Len(result[1].species) > 2

\* C10: atom s*N + m of the supercell, s the rank of the shift (i, j, k) in
\* lexicographic order, has the label of atom m and the coordinates
\* (positions_frac[m] + (i, j, k)) / (na, nb, nc).
C10_SupercellAligned ==
    (call.op = "make_supercell" /\ result # None) =>
        LET L == lat[1]
            R == result[1]
            N == NAtoms(L)
            na == call.multipliers[1]
            nb == call.multipliers[2]
            nc == call.multipliers[3]
        IN  \A i \in 0..(na - 1), j \in 0..(nb - 1), k \in 0..(nc - 1), m \in 0..(N - 1) :
                LET s == (i * nb + j) * nc + k
                    p == Row(L.positions_frac, m)
                    q == Row(R.positions_frac, s * N + m)
                IN  /\ R.species[s * N + m + 1] = L.species[m + 1]
                    /\ q[1] = Rat(p[1][1] + i * p[1][2], p[1][2] * na)
                    /\ q[2] = Rat(p[2][1] + j * p[2][2], p[2][2] * nb)
                    /\ q[3] = Rat(p[3][1] + k * p[3][2], p[3][2] * nc)

\* A supercell of several replicas of a cell of two atoms with different
\* labels and positions.
C10_Witness ==
    /\ call.op = "make_supercell"
    /\ result # None
    /\ NAtoms(lat[1]) = 2
    /\ Row(lat[1].positions_frac, 0) # Row(lat[1].positions_frac, 1)
    /\ call.multipliers[1] > 1
    /\ call.multipliers[2] # call.multipliers[1]

FiniteBasis(R) == \A i \in 1..3, c \in 1..3 : IsFinite(R.basis[i][c])

\* C5: constructing the reciprocal lattice of a cell of volume 0 raises
\* and leaves no object; no ReciprocalLattice holds an infinity or a nan.
C5_DegenerateLatticeRaises ==
    /\ (call.op = "ReciprocalLattice" /\ volume(lat[1].lattice_vectors) = 0)
          => (raised # "none" /\ recip = None)
    /\ recip # None => FiniteBasis(recip[1])

\* a . b for an integral vector a and a reciprocal vector b (units of 2*pi).
fdot(a, b) == FAdd(FAdd(FMulInt(a[1], b[1]), FMulInt(a[2], b[2])), FMulInt(a[3], b[3]))

\* C7: for a cell of volume other than 0, a_i . b_j = 2*pi if i = j and 0
\* otherwise.
C7_Duality ==
    (recip # None /\ volume(lat[1].lattice_vectors) # 0) =>
        \A i \in 1..3, j \in 1..3 :
            fdot(lat[1].lattice_vectors[i], recip[1].basis[j])
                = (IF i = j THEN RInt(1) ELSE RInt(0))

\* The reciprocal lattice of a sheared cell with unequal edges.
C7_Witness ==
    /\ recip # None
    /\ volume(lat[1].lattice_vectors) # 0
    /\ lat[1].lattice_vectors[2][1] # 0
    /\ lat[1].lattice_vectors[3][2] # 0
    /\ lat[1].lattice_vectors[1][1] # lat[1].lattice_vectors[3][3]

Origin == <<RInt(0), RInt(0), RInt(0)>>

\* The points get_reciprocal_points is to return for the basis b.
PointsAsClaimed(pts, b, shell) ==
    LET w == 2 * shell + 1
    IN  /\ Len(pts) = w * w * w
        /\ \A i \in (-shell)..shell, j \in (-shell)..shell, k \in (-shell)..shell :
              \A c \in 1..3 :
                 pts[((i + shell) * w + (j + shell)) * w + (k + shell) + 1][c]
                    = FAdd(FAdd(FMulInt(i, b[1][c]), FMulInt(j, b[2][c])),
                           FMulInt(k, b[3][c]))
        /\ shell = 0 => pts = <<Origin>>

\* C9: get_reciprocal_points(shell) returns the (2*shell+1)^3 points
\* i*b1 + j*b2 + k*b3 in lexicographic order of (i, j, k), and for shell 0
\* the point (0, 0, 0) alone.
C9_ReciprocalPoints ==
    call.op = "get_reciprocal_points" =>
        PointsAsClaimed(result[1], recip[1].basis, call.shell)

\* What holds of the code: the same, for a basis without infinity or nan.
C9_ReciprocalPointsOfFiniteBasis ==
    (call.op = "get_reciprocal_points" /\ FiniteBasis(recip[1])) =>
        PointsAsClaimed(result[1], recip[1].basis, call.shell)

\* The body-centred cubic cell of edge a: atoms at (0,0,0) and (1/2,1/2,1/2).
IsBcc(L, a) ==
    /\ a > 0
    /\ L.lattice_vectors = << <<a, 0, 0>>, <<0, a, 0>>, <<0, 0, a>> >>
    /\ L.positions_frac.shape = <<2, 3>>
    /\ Row(L.positions_frac, 0) = Origin
    /\ Row(L.positions_frac, 1) = <<Rat(1, 2), Rat(1, 2), Rat(1, 2)>>

\* a*sqrt(3)/2 <= cutoff < a, and cutoff < a*sqrt(3)/2.
InDiagonalWindow(a, cutoff) ==
    /\ 3 * a * a * cutoff[2] * cutoff[2] <= 4 * cutoff[1] * cutoff[1]
    /\ cutoff[1] * cutoff[1] < a * a * cutoff[2] * cutoff[2]
BelowDiagonal(a, cutoff) ==
    4 * cutoff[1] * cutoff[1] < 3 * a * a * cutoff[2] * cutoff[2]

\* C6: in the body-centred cubic cell of edge a, a cutoff from a*sqrt(3)/2
\* up to a returns something, and only the triple (0, 1, a*sqrt(3)/2); a
\* cutoff below a*sqrt(3)/2 returns nothing.
C6_BodyDiagonal ==
    call.op = "get_neighbors" =>
        LET a == lat[1].lattice_vectors[1][1]
        IN  IsBcc(lat[1], a) =>
              /\ InDiagonalWindow(a, call.cutoff) =>
                    DOMAIN result[1] = {<<0, 1, Rat(3 * a * a, 4)>>}
              /\ BelowDiagonal(a, call.cutoff) => DOMAIN result[1] = {}

\* The body-centred cell queried in the window: the diagonal pair is there.
C6_Witness ==
    /\ call.op = "get_neighbors"
    /\ IsBcc(lat[1], lat[1].lattice_vectors[1][1])
    /\ InDiagonalWindow(lat[1].lattice_vectors[1][1], call.cutoff)
    /\ DOMAIN result[1] # {}
====
